---- MODULE Spec2Model ----
(***************************************************************************)
(* tg9: the event loop of run (src/main.rs), the api_worker task that      *)
(* serves its jobs, the screen task that feeds it terminal events, and the *)
(* remote service and terminal as far as the code calls them.              *)
(***************************************************************************)
EXTENDS Integers, Sequences, FiniteSets, TLC

\* ------------------------------------------------------------------ bounds
\* conversations the remote account has (chat identifiers 1..NumChats)
NumChats == 2
\* messages each conversation holds on the remote service at start
InitMsgs == 2
\* 'j'/'k' key presses the terminal delivers in one run
MaxNav == 3
\* terminal events that wait in the screen channel at once
MaxScreenQueue == 1
\* live updates the remote service pushes in one run
MaxLive == 1
\* entries the remote dialog listing repeats
MaxReplay == 1

\* ------------------------------------------------------- program constants
\* client.iter_messages(c).limit(30)
PageLimit == 30
\* usize::MAX, the value Some(0).map(|i| i-1) wraps to when overflow checks
\* are off; TLC's integers are 32 bits wide, so the largest of them stands
\* for it (every use compares it with chat_states.len()).
usize_MAX == 2147483647

\* --------------------------------------------------------------- helpers
Min(a, b) == IF a < b THEN a ELSE b
Max(a, b) == IF a > b THEN a ELSE b

\* Option<usize>
None == <<>>
Some(i) == <<i>>

Chats == 1..NumChats

VARIABLES
    quit,         \* app.quit
    chat_states,  \* app.chat_states: sequence of ChatState
    dialog_idx,   \* app.dialog_idx: None or Some(0-based index)
    pc,           \* where run is: "loop", "exited", "draw_err", "panic_*"
    screen_rx,    \* the screen channel (unbounded mpsc), oldest first
    api_rx,       \* the API event channel (unbounded mpsc), oldest first
    api_job_rx,   \* the job channel (unbounded mpsc), oldest first
    worker,       \* api_worker: [pc, job, iter]
    updates,      \* updates the client holds for next_update(), oldest first
    remote,       \* remote[c]: identifiers of c's messages, newest first
    sent,         \* [nav, live]: navigation keys and live updates produced
    drew          \* whether the latest loop iteration reached terminal.draw

vars == <<quit, chat_states, dialog_idx, pc, screen_rx, api_rx, api_job_rx,
          worker, updates, remote, sent, drew>>

\* ------------------------------------------------------------ data types
\* struct ChatState { chat, dialog, messages }; ChatState::new(dialog)
ChatState(dialog) ==
    [chat |-> dialog.chat, dialog |-> dialog, messages |-> <<>>]

\* a Dialog of the remote listing; dialog.chat().pack() is its identifier
Dialog(c) == [chat |-> c]

\* a Message: message.chat() and its identifier within the chat
Message(c, n) == [chat |-> c, id |-> n]

\* enum ApiJob
LoadDialogs == [kind |-> "LoadDialogs", chat |-> 0]
LoadMessages(c) == [kind |-> "LoadMessages", chat |-> c]

\* api_worker holds no job while it waits in select!
NoJob == [kind |-> "none", chat |-> 0]

\* enum ApiEvent (MessageDeleted and MessageEdited are never sent)
LoadedDialog(c) == [kind |-> "LoadedDialog", chat |-> c, id |-> 0]
LoadedMessages(m) == [kind |-> "LoadedMessages", chat |-> m.chat, id |-> m.id]
MessageNew(m) == [kind |-> "MessageNew", chat |-> m.chat, id |-> m.id]
ApiError == [kind |-> "Error", chat |-> 0, id |-> 0]

\* the ScreenEvent values the screen task sends (Screen::start); "Resize"
\* stands for Mouse, Resize, FocusLost, FocusGained and Paste, which run
\* handles alike, and "Key_x" for every key without a binding
NavKeys == {"Key_j", "Key_k"}
OtherScreenEvents ==
    {"Tick", "Render", "Key_q", "Key_ctrl_c", "Key_x", "Resize", "Error"}

\* the Update values client.next_update() yields are NewMessage (incoming or
\* outgoing) and the kinds api_worker ignores, for which MessageEdited stands

\* ------------------------------------------------------------------ Init
Init ==
    /\ quit = FALSE
    /\ chat_states = <<>>
    /\ dialog_idx = None
    /\ pc = "loop"
    /\ screen_rx = <<>>
    /\ api_rx = <<>>
    /\ api_job_rx = <<LoadDialogs>>
    /\ worker = [pc |-> "select", job |-> NoJob, iter |-> <<>>]
    /\ updates = <<>>
    /\ remote = [c \in Chats |-> [i \in 1..InitMsgs |-> InitMsgs + 1 - i]]
    /\ sent = [nav |-> 0, live |-> 0]
    /\ drew = FALSE

\* the process runs until run returns or panics
Running == pc = "loop"

\* ---------------------------------------------------------- screen task
\* Screen::start: a key press reaches the screen channel as ScreenEvent::Key
ScreenSendNav ==
    /\ Running
    /\ sent.nav < MaxNav
    /\ Len(screen_rx) < MaxScreenQueue
    /\ \E e \in NavKeys : screen_rx' = Append(screen_rx, e)
    /\ sent' = [sent EXCEPT !.nav = @ + 1]
    /\ UNCHANGED <<quit, chat_states, dialog_idx, pc, api_rx, api_job_rx,
                   worker, updates, remote, drew>>

\* Screen::start: the tick and render timers, the other keys, the other
\* crossterm events, and a read error of the event stream
ScreenSendOther ==
    /\ Running
    /\ Len(screen_rx) < MaxScreenQueue
    /\ \E e \in OtherScreenEvents : screen_rx' = Append(screen_rx, e)
    /\ UNCHANGED <<quit, chat_states, dialog_idx, pc, api_rx, api_job_rx,
                   worker, updates, remote, sent, drew>>

\* -------------------------------------------------------- remote service
\* the listings iter_dialogs() can produce: every conversation, in the
\* service's order, with at most MaxReplay entries delivered again
DialogListings ==
    { s \in UNION { [1..n -> Chats] : n \in NumChats..(NumChats + MaxReplay) } :
        /\ \A i \in 1..Len(s), j \in 1..Len(s) : i < j => s[i] <= s[j]
        /\ { s[i] : i \in 1..Len(s) } = Chats }

\* iter_messages(c).limit(30): the newest PageLimit messages, newest first
MessagePage(c) ==
    [i \in 1..Min(Len(remote[c]), PageLimit) |-> Message(c, remote[c][i])]

\* the service pushes an update; a new message joins its chat's history
RemoteUpdate ==
    /\ Running
    /\ sent.live < MaxLive
    /\ sent' = [sent EXCEPT !.live = @ + 1]
    /\ \/ \E c \in Chats, out \in BOOLEAN :
            LET n == Len(remote[c]) + 1 IN
            /\ remote' = [remote EXCEPT ![c] = <<n>> \o @]
            /\ updates' = Append(updates, [kind |-> "NewMessage", chat |-> c,
                                           id |-> n, outgoing |-> out])
       \/ /\ remote' = remote
          /\ updates' = Append(updates, [kind |-> "MessageEdited", chat |-> 0,
                                         id |-> 0, outgoing |-> FALSE])
    /\ UNCHANGED <<quit, chat_states, dialog_idx, pc, screen_rx, api_rx,
                   api_job_rx, worker, drew>>

\* ------------------------------------------------------------ api_worker
\* the job receiver is dropped once api_worker returns or unwinds; from then
\* on api_job_tx.send(..) returns Err
JobRxDropped == worker.pc \in {"returned", "panicked"}

\* select!: job = rx.recv(), Some(job): the job's iterator is created
WorkerRecvJob ==
    /\ Running
    /\ worker.pc = "select"
    /\ api_job_rx # <<>>
    /\ api_job_rx' = Tail(api_job_rx)
    /\ LET job == Head(api_job_rx) IN
       IF job.kind = "LoadDialogs"
       THEN \E s \in DialogListings :
                worker' = [pc |-> "dialogs", job |-> job, iter |-> s]
       ELSE worker' = [pc |-> "messages", job |-> job,
                       iter |-> MessagePage(job.chat)]
    /\ UNCHANGED <<quit, chat_states, dialog_idx, pc, screen_rx, api_rx,
                   updates, remote, sent, drew>>

\* dialogs.next().await.unwrap() / message_iter.next().await.unwrap():
\* Ok(Some(x)) sends one event, Ok(None) ends the job, Err(_) panics the task
WorkerNext ==
    /\ Running
    /\ worker.pc \in {"dialogs", "messages"}
    /\ \E err \in BOOLEAN :
        IF err
        THEN /\ worker' = [pc |-> "panicked", job |-> NoJob, iter |-> <<>>]
             /\ api_rx' = api_rx
        ELSE IF worker.iter = <<>>
        THEN /\ worker' = [pc |-> "select", job |-> NoJob, iter |-> <<>>]
             /\ api_rx' = api_rx
        ELSE /\ worker' = [worker EXCEPT !.iter = Tail(@)]
             /\ api_rx' = Append(api_rx,
                    IF worker.pc = "dialogs"
                    THEN LoadedDialog(Head(worker.iter))
                    ELSE LoadedMessages(Head(worker.iter)))
    /\ UNCHANGED <<quit, chat_states, dialog_idx, pc, screen_rx, api_job_rx,
                   updates, remote, sent, drew>>

\* select!: update = client.next_update(), Ok(Some(update))
WorkerUpdate ==
    /\ Running
    /\ worker.pc = "select"
    /\ updates # <<>>
    /\ updates' = Tail(updates)
    /\ LET u == Head(updates) IN
       api_rx' = IF u.kind = "NewMessage" /\ ~u.outgoing
                 THEN Append(api_rx, MessageNew(Message(u.chat, u.id)))
                 ELSE api_rx
    /\ UNCHANGED <<quit, chat_states, dialog_idx, pc, screen_rx, api_job_rx,
                   worker, remote, sent, drew>>

\* select!: update = client.next_update(), Err(_): one Error event, break
WorkerUpdateErr ==
    /\ Running
    /\ worker.pc = "select"
    /\ api_rx' = Append(api_rx, ApiError)
    /\ worker' = [pc |-> "returned", job |-> NoJob, iter |-> <<>>]
    /\ UNCHANGED <<quit, chat_states, dialog_idx, pc, screen_rx, api_job_rx,
                   updates, remote, sent, drew>>

\* select!: update = client.next_update(), Ok(None): break
WorkerUpdateEnd ==
    /\ Running
    /\ worker.pc = "select"
    /\ worker' = [pc |-> "returned", job |-> NoJob, iter |-> <<>>]
    /\ UNCHANGED <<quit, chat_states, dialog_idx, pc, screen_rx, api_rx,
                   api_job_rx, updates, remote, sent, drew>>

\* ------------------------------------------------------------------- run
\* Some(e) = screen_rx.recv()
RecvScreen(e) ==
    /\ Running
    /\ screen_rx # <<>>
    /\ Head(screen_rx) = e
    /\ screen_rx' = Tail(screen_rx)

\* Some(api_event) = api_rx.recv()
RecvApi(k) ==
    /\ Running
    /\ api_rx # <<>>
    /\ Head(api_rx).kind = k
    /\ api_rx' = Tail(api_rx)

\* the end of an iteration: screen.terminal.draw(|f| ui(f, &mut app))?, where
\* ui unwraps chat_states.get(idx), then if app.quit { break }, and after the
\* loop screen.exit()
Draw(q, cs, idx) ==
    /\ drew' = TRUE
    /\ IF idx # None /\ idx[1] >= Len(cs)
       THEN pc' = "panic_ui"
       ELSE \E io_err \in BOOLEAN :
                pc' = IF io_err THEN "draw_err" ELSE IF q THEN "exited" ELSE "loop"

\* an arm that changes nothing, and the end of its iteration
NoChange ==
    /\ Draw(quit, chat_states, dialog_idx)
    /\ UNCHANGED <<quit, chat_states, dialog_idx, api_rx, api_job_rx, worker,
                   updates, remote, sent>>

\* ScreenEvent::Tick => {}
ScreenTick ==
    /\ RecvScreen("Tick")
    /\ NoChange

\* ScreenEvent::Render => {}
ScreenRender ==
    /\ RecvScreen("Render")
    /\ NoChange

\* ScreenEvent::Key(e), the arm _ => {}
ScreenKeyOther ==
    /\ RecvScreen("Key_x")
    /\ NoChange

\* the arm _ => {} of match e: Error, Mouse, Resize, focus and paste events
ScreenOther ==
    /\ \E e \in {"Error", "Resize"} : RecvScreen(e)
    /\ NoChange

\* 'q' and Ctrl-C, and ScreenEvent::Quit (which the screen task never
\* sends): app.quit = true
ScreenQuit ==
    /\ \E e \in {"Key_q", "Key_ctrl_c", "Quit"} : RecvScreen(e)
    /\ quit' = TRUE
    /\ Draw(TRUE, chat_states, dialog_idx)
    /\ UNCHANGED <<chat_states, dialog_idx, api_rx, api_job_rx, worker,
                   updates, remote, sent>>

\* cmp::min(app.dialog_idx.map(|i| i+1).unwrap_or(0), app.chat_states.len()-1)
IdxDown(idx, len) == Min(IF idx = None THEN 0 ELSE idx[1] + 1, len - 1)

\* cmp::max(app.dialog_idx.map(|i| i-1).unwrap_or(0), 0), where i-1 wraps
\* to usize::MAX at i = 0 when overflow checks are off
IdxUp(idx) ==
    Max(IF idx = None THEN 0
        ELSE IF idx[1] = 0 THEN usize_MAX ELSE idx[1] - 1, 0)

\* Select with a job channel of capacity 1 whose send waits for room
SelectBounded(idx) ==
    /\ dialog_idx' = Some(idx)
    /\ IF idx >= Len(chat_states)
       THEN /\ pc' = "panic_index"
            /\ drew' = FALSE
            /\ api_job_rx' = api_job_rx
       ELSE IF JobRxDropped
       THEN /\ pc' = "panic_send"
            /\ drew' = FALSE
            /\ api_job_rx' = api_job_rx
       ELSE /\ Len(api_job_rx) < 1
            /\ api_job_rx' = Append(api_job_rx,
                                    LoadMessages(chat_states[idx + 1].chat))
            /\ Draw(quit, chat_states, Some(idx))

\* app.dialog_idx = Some(idx); let c = app.chat_states[idx].chat;
\* api_job_tx.send(ApiJob::LoadMessages(c)).unwrap(); then the iteration ends
Select(idx) ==
    /\ dialog_idx' = Some(idx)
    /\ IF idx >= Len(chat_states)
       THEN /\ pc' = "panic_index"
            /\ drew' = FALSE
            /\ api_job_rx' = api_job_rx
       ELSE IF JobRxDropped
       THEN /\ pc' = "panic_send"
            /\ drew' = FALSE
            /\ api_job_rx' = api_job_rx
       ELSE /\ api_job_rx' = Append(api_job_rx,
                                    LoadMessages(chat_states[idx + 1].chat))
            /\ Draw(quit, chat_states, Some(idx))

\* (KeyModifiers::NONE, KeyCode::Char('j'))
ScreenKeyJ ==
    /\ RecvScreen("Key_j")
    /\ IF chat_states = <<>>
       THEN \* continue
            /\ drew' = FALSE
            /\ UNCHANGED <<dialog_idx, pc, api_job_rx>>
       ELSE Select(IdxDown(dialog_idx, Len(chat_states)))
    /\ UNCHANGED <<quit, chat_states, api_rx, worker, updates, remote, sent>>

\* (KeyModifiers::NONE, KeyCode::Char('k')); with Some(0) selected, i-1
\* panics when the build checks overflow and wraps when it does not
ScreenKeyK ==
    /\ RecvScreen("Key_k")
    /\ IF chat_states = <<>>
       THEN \* continue
            /\ drew' = FALSE
            /\ UNCHANGED <<dialog_idx, pc, api_job_rx>>
       ELSE \E overflow_checks \in BOOLEAN :
            IF dialog_idx = Some(0) /\ overflow_checks
            THEN /\ pc' = "panic_sub"
                 /\ drew' = FALSE
                 /\ UNCHANGED <<dialog_idx, api_job_rx>>
            ELSE Select(IdxUp(dialog_idx))
    /\ UNCHANGED <<quit, chat_states, api_rx, worker, updates, remote, sent>>

\* ApiLoadedDialog that also submits a load job for the new conversation
ApiLoadedDialogEager ==
    /\ RecvApi("LoadedDialog")
    /\ chat_states' = Append(chat_states, ChatState(Dialog(Head(api_rx).chat)))
    /\ api_job_rx' = IF JobRxDropped THEN api_job_rx
                     ELSE Append(api_job_rx, LoadMessages(Head(api_rx).chat))
    /\ Draw(quit, chat_states', dialog_idx)
    /\ UNCHANGED <<quit, dialog_idx, screen_rx, worker, updates, remote, sent>>

\* ApiLoadedDialog with push_front in place of push_back
ApiLoadedDialogFront ==
    /\ RecvApi("LoadedDialog")
    /\ chat_states' = <<ChatState(Dialog(Head(api_rx).chat))>> \o chat_states
    /\ Draw(quit, chat_states', dialog_idx)
    /\ UNCHANGED <<quit, dialog_idx, screen_rx, api_job_rx, worker, updates,
                   remote, sent>>

\* ApiEvent::LoadedDialog(dialog): chat_states.push_back(ChatState::new(dialog))
ApiLoadedDialog ==
    /\ RecvApi("LoadedDialog")
    /\ chat_states' = Append(chat_states, ChatState(Dialog(Head(api_rx).chat)))
    /\ Draw(quit, chat_states', dialog_idx)
    /\ UNCHANGED <<quit, dialog_idx, screen_rx, api_job_rx, worker, updates,
                   remote, sent>>

\* PushMessage with push_front in place of push_back
PushMessageFront(cs, m) ==
    LET hits == { i \in 1..Len(cs) : cs[i].chat = m.chat } IN
    IF hits = {} THEN cs
    ELSE LET i == CHOOSE i \in hits : \A j \in hits : i <= j IN
         [cs EXCEPT ![i].messages = <<m>> \o @]

\* for v in chat_states.iter_mut() { if v.chat == message.chat() {
\*     v.messages.push_back(message); break; } }
PushMessage(cs, m) ==
    LET hits == { i \in 1..Len(cs) : cs[i].chat = m.chat } IN
    IF hits = {} THEN cs
    ELSE LET i == CHOOSE i \in hits : \A j \in hits : i <= j IN
         [cs EXCEPT ![i].messages = Append(@, m)]

\* ApiEvent::LoadedMessages(message)
ApiLoadedMessages ==
    /\ RecvApi("LoadedMessages")
    /\ chat_states' = PushMessage(chat_states,
                                  Message(Head(api_rx).chat, Head(api_rx).id))
    /\ Draw(quit, chat_states', dialog_idx)
    /\ UNCHANGED <<quit, dialog_idx, screen_rx, api_job_rx, worker, updates,
                   remote, sent>>

\* ApiEvent::MessageNew(_message) => {}
ApiMessageNew ==
    /\ RecvApi("MessageNew")
    /\ Draw(quit, chat_states, dialog_idx)
    /\ UNCHANGED <<quit, chat_states, dialog_idx, screen_rx, api_job_rx,
                   worker, updates, remote, sent>>

\* ApiEvent::Error() => {}
ApiErrorEvent ==
    /\ RecvApi("Error")
    /\ Draw(quit, chat_states, dialog_idx)
    /\ UNCHANGED <<quit, chat_states, dialog_idx, screen_rx, api_job_rx,
                   worker, updates, remote, sent>>

\* ------------------------------------------------------------------ Next
Next ==
    \/ ScreenSendNav
    \/ ScreenSendOther
    \/ RemoteUpdate
    \/ WorkerRecvJob
    \/ WorkerNext
    \/ WorkerUpdate
    \/ WorkerUpdateErr
    \/ WorkerUpdateEnd
    \/ ScreenTick
    \/ ScreenRender
    \/ ScreenKeyOther
    \/ ScreenOther
    \/ ScreenQuit
    \/ ScreenKeyJ
    \/ ScreenKeyK
    \/ ApiLoadedDialog
    \/ ApiLoadedMessages
    \/ ApiMessageNew
    \/ ApiErrorEvent

Spec == Init /\ [][Next]_vars

\* ---------------------------------------------------------------- claims
\* steps of the loop in run, told by the receive they start with
TakesScreen(e) ==
    screen_rx # <<>> /\ Head(screen_rx) = e /\ screen_rx' = Tail(screen_rx)
TakesApi(k) ==
    api_rx # <<>> /\ Head(api_rx).kind = k /\ api_rx' = Tail(api_rx)
Iteration ==
    \/ screen_rx # <<>> /\ screen_rx' = Tail(screen_rx)
    \/ api_rx # <<>> /\ api_rx' = Tail(api_rx)
Navigates == TakesScreen("Key_j") \/ TakesScreen("Key_k")

\* LoadMessages jobs for conversation c that were submitted and are not yet
\* finished by api_worker: those in the job channel and the one it executes
PendingLoads(c) ==
    Cardinality({ i \in 1..Len(api_job_rx) : api_job_rx[i] = LoadMessages(c) })
    + (IF worker.pc = "messages" /\ worker.job = LoadMessages(c) THEN 1 ELSE 0)

\* C1: at every moment, for every conversation, at most one LoadMessages job
\* targeting it is pending.
C1_AtMostOnePendingLoad == \A c \in Chats : PendingLoads(c) <= 1

\* C2: every conversation's message cache is strictly ordered oldest-first by
\* the messages' own sequence numbers, whatever the arrival order.
C2_CacheOldestFirst ==
    \A i \in 1..Len(chat_states) :
        LET ms == chat_states[i].messages IN
        \A j \in 1..Len(ms), k \in 1..Len(ms) : j < k => ms[j].id < ms[k].id

\* C3: no message cache ever holds two messages with the same identifier.
C3_NoDuplicateMessage ==
    \A i \in 1..Len(chat_states) :
        LET ms == chat_states[i].messages IN
        \A j \in 1..Len(ms), k \in 1..Len(ms) : j # k => ms[j].id # ms[k].id

\* C4: no two entries of chat_states have the same conversation identifier
\* (a LoadedDialog event for a known conversation adds nothing).
C4_NoDuplicateConversation ==
    \A i \in 1..Len(chat_states), j \in 1..Len(chat_states) :
        i # j => chat_states[i].chat # chat_states[j].chat

\* C5: the iteration that receives a MessageNew event for conversation c
\* leaves an entry for c in chat_states whose cache ends with that message.
C5_LiveMessageKept ==
    [][TakesApi("MessageNew") =>
        \E i \in 1..Len(chat_states') :
            /\ chat_states'[i].chat = Head(api_rx).chat
            /\ chat_states'[i].messages # <<>>
            /\ chat_states'[i].messages[Len(chat_states'[i].messages)]
                   = Message(Head(api_rx).chat, Head(api_rx).id)]_vars

\* C6: a 'j'/'k' step that moves the selection to a conversation with an empty
\* cache and no pending load submits exactly one LoadMessages job, for that
\* conversation, in that step.
C6_SelectionSubmitsLoad ==
    [][(/\ Navigates
        /\ dialog_idx' # dialog_idx
        /\ dialog_idx' # None
        /\ dialog_idx'[1] < Len(chat_states)
        /\ chat_states[dialog_idx'[1] + 1].messages = <<>>
        /\ PendingLoads(chat_states[dialog_idx'[1] + 1].chat) = 0)
       => api_job_rx' = Append(api_job_rx,
              LoadMessages(chat_states[dialog_idx'[1] + 1].chat))]_vars

\* C7: once api_worker has stopped (a fetch failed, or the update stream
\* erred or ended), the loop still handles 'j'/'k' without panicking, and it
\* ends by break only after a quit action.
C7_RemoteFaultNonFatal ==
    /\ JobRxDropped => pc # "panic_send"
    /\ pc = "exited" => quit

\* C8: the step in which a job's remote operation fails puts exactly one
\* failure event on the API event channel and leaves api_worker serving jobs.
C8_FailedJobReported ==
    [][(worker.pc \in {"dialogs", "messages"} /\ worker'.pc = "panicked")
       => /\ api_rx' = Append(api_rx, ApiError)
          /\ ~JobRxDropped']_vars

\* C9: the iteration that receives a failure event while a load of some
\* conversation is pending leaves every message cache as it was, marks that
\* conversation (its ChatState changes), and leaves the job channel open so
\* that a later selection of it can submit a load.
C9_FailureHandled ==
    [][(TakesApi("Error") /\ \E c \in Chats : PendingLoads(c) > 0) =>
        /\ Len(chat_states') = Len(chat_states)
        /\ \A i \in 1..Len(chat_states) :
               chat_states'[i].messages = chat_states[i].messages
        /\ \E i \in 1..Len(chat_states) :
               /\ PendingLoads(chat_states[i].chat) > 0
               /\ chat_states'[i] # chat_states[i]
        /\ ~JobRxDropped']_vars

\* C10: an iteration of the loop reaches terminal.draw only if the event it
\* received is ScreenEvent::Render.
C10_DrawOnlyOnRender ==
    [][(Iteration /\ drew') => TakesScreen("Render")]_vars

\* C11: once a quit action has set app.quit, the loop is over (no later
\* iteration applies an event), the flag stays set, and control has passed
\* the break and reached screen.exit().
C11_QuitEndsLoopAndRestores == quit => pc = "exited"

\* C12: the iteration that receives ScreenEvent::Error ends the loop through
\* the shutdown path, break and then screen.exit().
C12_ScreenErrorIsFatal ==
    [][TakesScreen("Error") => pc' = "exited"]_vars

\* C14: once the update stream has ended or erred (api_worker has returned),
\* no navigation key makes run attempt another api_job_tx.send: no job is
\* added to the job channel and no send fails.
C14_NoLoadAfterDisconnect ==
    [][worker.pc = "returned" =>
        /\ api_job_rx' = api_job_rx
        /\ pc' # "panic_send"]_vars

\* C15: app.dialog_idx is None or an index below chat_states.len(), and no
\* navigation step underflows or indexes out of bounds.
C15_SelectionInBounds ==
    /\ dialog_idx = None \/ dialog_idx[1] < Len(chat_states)
    /\ pc \notin {"panic_sub", "panic_index", "panic_ui"}

\* C20: every step leaves the entries of chat_states where they are, with
\* their conversations; the only change of the list is one entry added at
\* the end by a LoadedDialog iteration, so a selected index keeps denoting
\* the same conversation.
C20_ListAppendOnly ==
    [][/\ Len(chat_states') >= Len(chat_states)
       /\ \A i \in 1..Len(chat_states) :
              /\ chat_states'[i].chat = chat_states[i].chat
              /\ chat_states'[i].dialog = chat_states[i].dialog
       /\ Len(chat_states') # Len(chat_states) =>
              /\ Len(chat_states') = Len(chat_states) + 1
              /\ TakesApi("LoadedDialog")]_vars

\* a conversation is selected and a later discovery has extended the list
C20_Witness ==
    /\ Len(chat_states) >= 2
    /\ dialog_idx = Some(0)
    /\ chat_states[1].chat # chat_states[2].chat
    /\ chat_states[1].messages # <<>>

\* the messages of api_rx's LoadedMessages events for conversation c, in
\* channel order
RECURSIVE InFlight(_, _)
InFlight(q, c) ==
    IF q = <<>> THEN <<>>
    ELSE IF Head(q).kind = "LoadedMessages" /\ Head(q).chat = c
         THEN <<Message(Head(q).chat, Head(q).id)>> \o InFlight(Tail(q), c)
         ELSE InFlight(Tail(q), c)

\* the cache that receives conversation c's page items: the first entry of
\* chat_states whose chat is c
CacheOf(c) ==
    LET hits == { i \in 1..Len(chat_states) : chat_states[i].chat = c } IN
    IF hits = {} THEN <<>>
    ELSE chat_states[CHOOSE i \in hits : \A j \in hits : i <= j].messages

\* what has been applied of c's load jobs, then what waits in the channel,
\* then what the job in progress has yet to send
PageStream(c) ==
    CacheOf(c) \o InFlight(api_rx, c)
    \o (IF worker.pc = "messages" /\ worker.job.chat = c
        THEN worker.iter ELSE <<>>)

\* C16: the items of each LoadMessages job are sent, delivered and appended
\* in the order the remote service returned them (newest first, identifiers
\* descending by one down to the oldest): the cache, followed by the channel
\* and by the rest of the running job, is the pages of the jobs one after
\* another, each in the service's order; only a job whose fetch failed is cut.
C16_PageOrderKept ==
    \A c \in Chats :
        LET s == PageStream(c) IN
        \A p \in 1..Len(s) :
            /\ s[p].chat = c
            /\ \/ s[p].id = 1
               \/ p < Len(s) /\ s[p + 1].id = s[p].id - 1
               \/ p = Len(s) /\ worker.pc = "panicked"

\* a whole page has been applied to a cache while items of a later job of
\* the same conversation are in the channel and the job is still running
C16_Witness ==
    \E i \in 1..Len(chat_states) :
        LET ms == chat_states[i].messages IN
        /\ Len(ms) >= InitMsgs
        /\ ms[Len(ms)].id = 1
        /\ InFlight(api_rx, chat_states[i].chat) # <<>>
        /\ worker.pc = "messages"
        /\ worker.iter # <<>>

\* C17: a job or a live update that is waiting while api_worker fetches for
\* an earlier job can be taken up at once: api_worker can receive the next
\* job, and can forward the next update, without the earlier job finishing.
C17_JobsRunConcurrently ==
    (Running /\ worker.pc \in {"dialogs", "messages"}) =>
        /\ api_job_rx # <<>> => ENABLED WorkerRecvJob
        /\ updates # <<>> => ENABLED WorkerUpdate

\* one iteration of the loop for the event at the head of the screen channel
ScreenBranch ==
    \/ ScreenTick
    \/ ScreenRender
    \/ ScreenKeyOther
    \/ ScreenOther
    \/ ScreenQuit
    \/ ScreenKeyJ
    \/ ScreenKeyK

\* C18: while the loop runs, an input event waiting in the screen channel
\* can be taken and its iteration completed, however many jobs are queued
\* and whatever api_worker is doing: a submission never waits.
C18_SubmitNeverBlocks ==
    (Running /\ screen_rx # <<>>) => ENABLED ScreenBranch

\* a navigation key waits while a job is queued and api_worker fetches for
\* an earlier one
C18_Witness ==
    /\ Running
    /\ screen_rx # <<>>
    /\ Head(screen_rx) \in NavKeys
    /\ Len(api_job_rx) >= 1
    /\ worker.pc = "messages"
    /\ chat_states # <<>>

\* ------------------------------------------- the LoadedMessages arm alone
\* The arm as a function of the list and the event: the loop is about to
\* receive one LoadedMessages event, with any list of conversations and any
\* selection in it. (In Spec the event's conversation is always listed: jobs
\* are submitted only for entries of chat_states, which are never removed.)
HandlerCaches(c) ==
    { [i \in 1..n |-> Message(c, n + 1 - i)] : n \in 0..InitMsgs }
HandlerEntries ==
    { [chat |-> c, dialog |-> Dialog(c), messages |-> ms] :
        c \in Chats, ms \in UNION { HandlerCaches(d) : d \in Chats } }
HandlerLists ==
    { cs \in UNION { [1..n -> HandlerEntries] : n \in 0..NumChats } :
        \A i \in 1..Len(cs) : cs[i].messages \in HandlerCaches(cs[i].chat) }

InitHandler ==
    /\ quit = FALSE
    /\ chat_states \in HandlerLists
    /\ dialog_idx \in {None} \cup { Some(i - 1) : i \in 1..Len(chat_states) }
    /\ pc = "loop"
    /\ screen_rx = <<>>
    /\ api_rx \in { <<LoadedMessages(Message(c, n))>> :
                        c \in Chats, n \in 1..InitMsgs }
    /\ api_job_rx = <<>>
    /\ worker = [pc |-> "select", job |-> NoJob, iter |-> <<>>]
    /\ updates = <<>>
    /\ remote = [c \in Chats |-> [i \in 1..InitMsgs |-> InitMsgs + 1 - i]]
    /\ sent = [nav |-> 0, live |-> 0]
    /\ drew = FALSE

NextHandler == ApiLoadedMessages

SpecHandler == InitHandler /\ [][NextHandler]_vars

\* struct App { quit, chat_states, dialog_idx } has no field that counts
\* dropped events, and run keeps no other count
AnomalyCount == 0

ApiBranch ==
    ApiLoadedDialog \/ ApiLoadedMessages \/ ApiMessageNew \/ ApiErrorEvent

FairSpec == Spec /\ WF_vars(ScreenBranch) /\ WF_vars(ApiBranch)

\* C19: no event is dropped. Each channel changes only by a sender appending
\* one event or by the reducer taking the head (FIFO, exactly once), and
\* under fair scheduling of the two branches an event waiting in either
\* channel is eventually taken by the reducer unless the loop has quit.
C19_NoEventDropped ==
    /\ [][/\ (screen_rx' # screen_rx) =>
               (\/ /\ screen_rx # <<>>
                   /\ TakesScreen(Head(screen_rx))
                \/ \E e \in NavKeys \cup OtherScreenEvents \cup {"Quit"} :
                       screen_rx' = Append(screen_rx, e))
          /\ (api_rx' # api_rx) =>
               (\/ /\ api_rx # <<>>
                   /\ TakesApi(Head(api_rx).kind)
                \/ /\ Len(api_rx') = Len(api_rx) + 1
                   /\ SubSeq(api_rx', 1, Len(api_rx)) = api_rx)]_vars
    /\ \A n \in 1..(MaxScreenQueue + 1) :
           (Len(screen_rx) = n) ~> (quit \/ Len(screen_rx) < n)
    /\ \A n \in 1..(NumChats * (InitMsgs + MaxLive + MaxReplay + 2) + 2) :
           (Len(api_rx) = n) ~> (quit \/ Len(api_rx) < n)

\* C21: histories are loaded lazily. The job channel grows only in a 'j'/'k'
\* iteration, by one LoadMessages job for the conversation selected after
\* that iteration; every other step leaves it alone or is api_worker taking
\* the head.
C21_LoadsOnlyOnNavigation ==
    [][(api_job_rx' # api_job_rx) =>
         (\/ (api_job_rx # <<>> /\ api_job_rx' = Tail(api_job_rx)
                /\ worker' # worker)
          \/ (/\ Navigates
              /\ dialog_idx' # None
              /\ dialog_idx'[1] < Len(chat_states')
              /\ api_job_rx' =
                   Append(api_job_rx,
                          LoadMessages(chat_states'[dialog_idx'[1] + 1].chat))))]_vars

\* a load for the second conversation is queued after navigating to it,
\* while discovery and page-item events have been applied
C21_Witness ==
    /\ Len(chat_states) >= 2
    /\ dialog_idx = Some(1)
    /\ chat_states[1].messages # <<>>
    /\ api_job_rx # <<>>
    /\ api_job_rx[Len(api_job_rx)] = LoadMessages(chat_states[2].chat)

\* ------------------------------------------------- fairness of api_worker
\* api_worker, once spawned, is polled by the runtime: a job waiting while
\* the task sits in select! is received unless the update branch is taken,
\* and a fetch that has been started returns. Whether and when the update
\* stream yields, fails or ends is the service's choice and is not fair.
FairWorkerSpec == FairSpec /\ WF_vars(WorkerRecvJob) /\ WF_vars(WorkerNext)

\* C22: every submitted LoadMessages job is eventually executed to the end
\* and its messages are applied to the cache, also when the update stream
\* ends while jobs are queued. Stated leniently: a behaviour in which the
\* loop ends, or a fetch fails, is not held against the claim.
C22_EveryJobExecuted ==
    \A c \in Chats :
        (PendingLoads(c) > 0) ~>
            \/ pc # "loop"
            \/ worker.pc = "panicked"
            \/ PendingLoads(c) = 0 /\ InFlight(api_rx, c) = <<>>

====
